---- MODULE Spec2Model ----
(***************************************************************************)
(* State-machine model of the FIFO auto-booking allocator of               *)
(* src/src/booking.py (autobook_fifo, book_appointment, block_slot,        *)
(* generate_reservation, remove_block) over the HTTP client of             *)
(* src/src/saltala_api.py (post).                                          *)
(*                                                                         *)
(* One run of autobook_fifo is one behaviour.  The run is sequential; its  *)
(* positions (pc) are the loop heads and the blocking network calls.       *)
(* Text fields are sequences of one-character strings, so that emptiness,  *)
(* whitespace and digit filtering are computed, not assumed.  A time of    *)
(* day "HH:MM" is modelled by its rank 1..MaxTimes (string order of        *)
(* zero-padded HH:MM is numeric order of the rank).                        *)
(*                                                                         *)
(* A second specification, SpecMain, models one polling cycle of           *)
(* src/src/check_lobarnechea.py (main) over the user directory and         *)
(* notifier of src/src/kapso_notifier.py.  Each specification holds the    *)
(* other program's variables at their idle values.                         *)
(***************************************************************************)
EXTENDS Integers, Sequences, FiniteSets, TLC

\* ---------------------------------------------------------------- bounds
\* Longest input time list.
MaxTimes == 3
\* Longest input candidate list.
MaxUsers == 2
\* Largest number of users in the directory (main).
MaxDirUsers == 2

\* ---------------------------------------------------------------- values
\* Python's None (dict.get of a missing key).
None == <<"None">>

Digits == {"0", "1", "2", "3", "4", "5", "6", "7", "8", "9"}

\* Python truthiness of an Optional[str]: None and "" are falsy.
Truthy(v) == v # None /\ v # <<>>

\* _normalize_rut: "" for a falsy rut, else the rut with every non-digit removed.
IsDigit(c) == c \in Digits
_normalize_rut(rut) ==
    IF ~Truthy(rut) THEN <<>> ELSE SelectSeq(rut, IsDigit)

\* The candidate records the runs draw from (dicts of the user directory).
UserA == [id |-> <<"a">>, rut |-> <<"1", "2", "-", "9">>, first_name |-> <<"A">>,
          last_name |-> <<"Z">>, phone |-> <<"+", "5", "6", "9", "1", "1", "1", "1", "1", "1", "1", "1">>]
UserB == [id |-> <<"b">>, rut |-> <<"3", ".", "4", "-", "k">>, first_name |-> <<"B">>,
          last_name |-> <<"Y">>, phone |-> <<"5", "6", "9", "2", "2", "2", "2", "2", "2", "2", "2">>]
\* last_name key missing
UserC == [id |-> <<"c">>, rut |-> <<"5", "-", "6">>, first_name |-> <<"C">>,
          last_name |-> None, phone |-> <<"5", "6", "9", "3", "3", "3", "3", "3", "3", "3", "3">>]
\* rut present but empty
UserD == [id |-> <<"d">>, rut |-> <<>>, first_name |-> <<"D">>,
          last_name |-> <<"X">>, phone |-> <<"5", "6", "9", "4", "4", "4", "4", "4", "4", "4", "4">>]
\* no id, whitespace-only first name, rut without any digit
UserW == [id |-> None, rut |-> <<"k">>, first_name |-> <<" ">>,
          last_name |-> <<"W">>, phone |-> None]

Candidates == {UserA, UserB, UserC, UserD, UserW}

\* The times of day a list is drawn from (ranks of "HH:MM").
TimeValues == {1, 2, 3}

\* Sequences over S of length at most n.
SeqUpTo(S, n) == UNION {[1..k -> S] : k \in 0..n}

IsAscending(s) == \A i \in 1..(Len(s) - 1) : s[i] <= s[i + 1]

\* Available-time lists: ascending, a value may repeat.
TimeLists == {s \in SeqUpTo(TimeValues, MaxTimes) : IsAscending(s)}
UserLists == SeqUpTo(Candidates, MaxUsers)

\* What one HTTP exchange with the gateway can produce: a transport failure
\* (requests.RequestException: connection error, timeout) or a status code.
\* 409 stands for a domain rejection such as "slot already taken".
GatewayResponses ==
    { [exc |-> "none", status |-> 200],
      [exc |-> "none", status |-> 409],
      [exc |-> "Timeout", status |-> 0] }

\* A faulty post: only a transport failure raises, the status is not looked at.
PostRaisesTransportOnly(resp) == resp.exc # "none"

\* saltala_api.post: raises SaltalaAPIError on a RequestException or on a
\* status >= 400, else returns the (unwrapped) body.
PostRaises(resp) ==
    IF resp.exc # "none" THEN TRUE ELSE resp.status >= 400

\* A faulty post that lets the transport exception through unwrapped.
PostExceptionUnwrapped(resp) ==
    IF resp.exc # "none" THEN resp.exc
    ELSE IF resp.status >= 400 THEN "SaltalaAPIError" ELSE "none"

\* saltala_api.post: the class of the exception it raises ("none" when it
\* returns). A RequestException is caught and re-raised as SaltalaAPIError
\* (lines 128-130); a status >= 400 raises SaltalaAPIError (lines 135-139).
PostException(resp) ==
    IF resp.exc # "none" THEN "SaltalaAPIError"
    ELSE IF resp.status >= 400 THEN "SaltalaAPIError" ELSE "none"

\* The except clause of block_slot, generate_reservation and remove_block.
Caught(exc) == exc = "SaltalaAPIError"

\* requests' raise_for_status after a Kapso request: the call succeeds when
\* no exception was raised and the status is below 400.
RequestSucceeds(resp) == resp.exc = "none" /\ resp.status < 400

\* Shortest and longest digit string _normalize_whatsapp_to accepts.
MinPhoneDigits == 10
MaxPhoneDigits == 15

\* _normalize_whatsapp_to: digits only, a leading "00" dropped, "" unless
\* 10 to 15 digits remain.
_normalize_whatsapp_to(to_phone) ==
    IF ~Truthy(to_phone) THEN <<>>
    ELSE LET digits == SelectSeq(to_phone, IsDigit)
             intl == IF Len(digits) >= 2 /\ digits[1] = "0" /\ digits[2] = "0"
                     THEN SubSeq(digits, 3, Len(digits)) ELSE digits
         IN IF Len(intl) >= MinPhoneDigits /\ Len(intl) <= MaxPhoneDigits
            THEN intl ELSE <<>>

\* send_template_message / send_whatsapp_message: False without any request
\* for an unusable phone, else the outcome of the request.
SendResult(to_phone, resp) ==
    IF _normalize_whatsapp_to(to_phone) = <<>> THEN FALSE ELSE RequestSucceeds(resp)

\* A faulty list.remove that drops every occurrence of x.
RemoveEvery(s, x) == SelectSeq(s, LAMBDA y : y # x)

\* list.remove(x): drop the first occurrence of x.
RECURSIVE RemoveFirst(_, _)
RemoveFirst(s, x) ==
    IF s = <<>> THEN <<>>
    ELSE IF Head(s) = x THEN Tail(s)
    ELSE <<Head(s)>> \o RemoveFirst(Tail(s), x)

\* A faulty eligibility test that forgets last_name.
HasRequiredFieldsNoLastName(user) ==
    Truthy(user.rut) /\ Truthy(user.first_name)

\* The eligibility test of autobook_fifo (line 251).
HasRequiredFields(user) ==
    Truthy(user.rut) /\ Truthy(user.first_name) /\ Truthy(user.last_name)

\* The guard of book_appointment (line 172), on the arguments it is passed.
MissingUserData(user) ==
    ~Truthy(user.rut) \/ ~Truthy(user.first_name) \/ ~Truthy(user.last_name)

\* The JSON payload of block_slot: the line, the date-time (the day and the
\* time of f"{date}T{time}:00") and the digits-only rut when that is
\* non-empty (<<>> = no patientRut key).  One run has one line_id and one
\* day.
BlockPayload(t, rut) ==
    [lineId |-> "line_id", day |-> "day", time |-> t, patientRut |-> _normalize_rut(rut)]

\* A faulty remove_block payload that carries the rut as given.
RemovePayloadRawRut(t, rut) ==
    [lineId |-> "line_id", day |-> "day", time |-> t, patientRut |-> rut]

\* The JSON payload of remove_block (lines 126-131), built as in block_slot.
RemovePayload(t, rut) ==
    [lineId |-> "line_id", day |-> "day", time |-> t, patientRut |-> _normalize_rut(rut)]

\* -------------------------------------------------------- user directory
\* A stored registered_at value.  An ISO-8601 text is modelled by its clock
\* hour and its zone designator: "Z", none ("naive") or a numeric offset in
\* hours.  The other kinds are None, the empty string, a text that is not
\* ISO-8601 and a value that is not a string.
Iso(h, z, off) == [kind |-> "iso", hour |-> h, zone |-> z, offset |-> off]
NotIso(k) == [kind |-> k, hour |-> 0, zone |-> "naive", offset |-> 0]

\* datetime.max (year 9999), the value of every unparseable timestamp.
DatetimeMax == 9999

\* A faulty parser that maps unknown values to the earliest instant.
_parse_iso_datetime_min(value) ==
    IF value.kind # "iso" THEN 0 - DatetimeMax
    ELSE IF value.zone = "offset" THEN value.hour - value.offset ELSE value.hour

\* _parse_iso_datetime: the UTC instant of an ISO-8601 string ("Z" read as
\* +00:00, a naive value taken as UTC), datetime.max for anything else.
_parse_iso_datetime(value) ==
    IF value.kind # "iso" THEN DatetimeMax
    ELSE IF value.zone = "offset" THEN value.hour - value.offset ELSE value.hour

\* Characters of the identifiers in use, in code-point order.
CodePoints == <<"N", "e", "g", "n", "o", "p", "x", "y">>
Ord(c) == CHOOSE k \in DOMAIN CodePoints : CodePoints[k] = c

\* str(id): None prints as "None".
str(v) == IF v = None THEN <<"N", "o", "n", "e">> ELSE v

\* Python's < on str.
RECURSIVE StrLess(_, _)
StrLess(a, b) ==
    IF b = <<>> THEN FALSE
    ELSE IF a = <<>> THEN TRUE
    ELSE IF Head(a) # Head(b) THEN Ord(Head(a)) < Ord(Head(b))
    ELSE StrLess(Tail(a), Tail(b))

\* A faulty sort key without the identifier.
KeyLessNoId(u, v) ==
    _parse_iso_datetime(u.registered_at) < _parse_iso_datetime(v.registered_at)

\* < on the sort key (parsed registered_at, str(id)) of get_active_users.
KeyLess(u, v) ==
    LET du == _parse_iso_datetime(u.registered_at)
        dv == _parse_iso_datetime(v.registered_at)
    IN du < dv \/ (du = dv /\ StrLess(str(u.id), str(v.id)))

\* sorted(users, key=...): a stable sort, built by inserting each element
\* after the elements that are not greater.
RECURSIVE InsertStable(_, _)
InsertStable(sorted, u) ==
    IF sorted = <<>> THEN <<u>>
    ELSE IF KeyLess(u, Head(sorted)) THEN <<u>> \o sorted
    ELSE <<Head(sorted)>> \o InsertStable(Tail(sorted), u)

RECURSIVE sorted(_)
sorted(users) ==
    IF users = <<>> THEN <<>>
    ELSE InsertStable(sorted(SubSeq(users, 1, Len(users) - 1)), users[Len(users)])

\* get_active_users: the directory answers with its active users in its own
\* order; the list is sorted locally; any request failure gives [].
get_active_users(rows, resp) ==
    IF ~RequestSucceeds(resp) THEN <<>>
    ELSE sorted(SelectSeq(rows, LAMBDA u : u.status = "active"))

\* Default of get_pending_users_to_reactivate(hours), and the hours main
\* passes for the follow-up list.
ReactivationHours == 24
FollowupHours == 1

\* get_pending_users_to_reactivate: the pending users whose notified_at is
\* more than `hours` old; any request failure gives [].  main calls it
\* under the name get_pending_users_for_followup.
get_pending_users_to_reactivate(rows, hours, resp) ==
    IF ~RequestSucceeds(resp) THEN <<>>
    ELSE SelectSeq(rows, LAMBDA u : u.status = "pending" /\ u.notified_hours > hours)

\* Directory rows.  x and n were registered at the same instant; p has no
\* registered_at and no phone; g has a registered_at that is not ISO-8601
\* and a mode that is neither "autobook" nor "notify".
DirX == [id |-> <<"x">>, mode |-> "autobook", rut |-> <<"1", "-", "9">>,
         first_name |-> <<"A">>, last_name |-> <<"Z">>,
         phone |-> <<"5", "6", "9", "1", "1", "1", "1", "1", "1", "1", "1">>,
         registered_at |-> Iso(2, "Z", 0), status |-> "active", notified_hours |-> 0]
DirY == [id |-> <<"y">>, mode |-> "autobook", rut |-> <<"2", "-", "7">>,
         first_name |-> <<"B">>, last_name |-> <<"Y">>,
         phone |-> <<"5", "6", "9", "2", "2", "2", "2", "2", "2", "2", "2">>,
         registered_at |-> Iso(1, "naive", 0), status |-> "active", notified_hours |-> 0]
DirN == [id |-> <<"n">>, mode |-> "notify", rut |-> <<"3", "-", "5">>,
         first_name |-> <<"C">>, last_name |-> <<"X">>,
         phone |-> <<"5", "6", "9", "3", "3", "3", "3", "3", "3", "3", "3">>,
         registered_at |-> Iso(3, "offset", 1), status |-> "active", notified_hours |-> 0]
DirP == [id |-> <<"p">>, mode |-> "autobook", rut |-> <<"4", "-", "3">>,
         first_name |-> <<"D">>, last_name |-> <<"W">>,
         phone |-> <<>>,
         registered_at |-> NotIso("None"), status |-> "active", notified_hours |-> 0]
DirG == [id |-> <<"g">>, mode |-> "unset", rut |-> <<"5", "-", "1">>,
         first_name |-> <<"E">>, last_name |-> <<"V">>,
         phone |-> <<"5", "6", "9", "5", "5", "5", "5", "5", "5", "5", "5">>,
         registered_at |-> NotIso("text"), status |-> "active", notified_hours |-> 0]

\* Every row is either active or pending past the reactivation delay.
Pending(u) == [u EXCEPT !.status = "pending", !.notified_hours = ReactivationHours + 1]
DirRows == LET actives == {DirX, DirY, DirN, DirP, DirG}
           IN actives \cup {Pending(u) : u \in actives}

\* The directory keys its rows by id.
Directories ==
    {d \in SeqUpTo(DirRows, MaxDirUsers) :
        \A i, j \in DOMAIN d : i # j => d[i].id # d[j].id}

\* Answers of a GET to the booking gateway (check_lobarnechea._get).
GetResponses ==
    { [exc |-> "none", status |-> 200],
      [exc |-> "none", status |-> 404],
      [exc |-> "ConnectionError", status |-> 0],
      [exc |-> "Timeout", status |-> 0] }

\* check_lobarnechea._get: the class of the exception it raises.  A status
\* >= 400 raises requests.HTTPError; an exception of requests.get is not
\* caught.
GetException(resp) ==
    IF resp.exc # "none" THEN resp.exc
    ELSE IF resp.status >= 400 THEN "HTTPError" ELSE "none"

\* config.py: the exit code reserved for "availability handled".
EXIT_AVAILABILITY_HANDLED == 42

\* Lists the gateway can answer with.
DayLists == {<<>>, <<1>>}
LineTimeLists == {<<>>, <<1>>, <<1, 2>>}
TargetLists == {<<1>>, <<1, 2>>}

\* ----------------------------------------------------------------- state
VARIABLES
    times,            \* argument `times`
    autobook_users,   \* argument `autobook_users`
    pc,               \* position of the run
    idx,              \* 1-based index of the outer loop
    remaining_times,  \* local remaining_times
    booked,           \* local booked (the value returned)
    snapshot,         \* list(remaining_times) the inner loop iterates
    attempts,         \* local attempts = position in snapshot
    ok,               \* result of the last book_appointment
    calls,            \* gateway calls of the book_appointment in progress or just returned
    held,             \* slots with an acknowledged, not yet released or reserved block
    reservations,     \* reservations the gateway confirmed, in order
    status_updates,   \* update_user_status calls, in order
    messages,         \* send_template_message calls, in order
    transactions      \* number of book_appointment invocations so far

\* State of one run of check_lobarnechea.main.
VARIABLES
    directory,            \* rows of the user directory, in its own order
    targets,              \* line ids of `targets`, in iteration order
    main_pc,              \* position of main
    active_users,         \* local active_users
    pending_users,        \* local pending_users
    line,                 \* 1-based position of the loop over targets
    days,                 \* local days
    line_times,           \* local times
    booked_user,          \* local booked_user: <<>> for None, else <<user>>
    notify_idx,           \* 1-based position of the loop over active_users
    notified_user_ids,    \* local notified_user_ids
    main_status_updates,  \* update_user_status calls of main, in order
    main_messages,        \* notifier sends of main, in order
    saltala_calls,        \* gateway calls of main, in order
    exit_code,            \* <<>> while running, else <<return value>>
    raised                \* class of the exception that left main, or "none"

fifo_vars == <<times, autobook_users, pc, idx, remaining_times, booked, snapshot,
               attempts, ok, calls, held, reservations, status_updates, messages,
               transactions>>

main_vars == <<directory, targets, main_pc, active_users, pending_users, line,
               days, line_times, booked_user, notify_idx, notified_user_ids,
               main_status_updates, main_messages, saltala_calls, exit_code,
               raised>>

vars == <<fifo_vars, main_vars>>

\* main before it is called.
MainIdle ==
    /\ directory = <<>>
    /\ targets = <<>>
    /\ main_pc = "idle"
    /\ active_users = <<>>
    /\ pending_users = <<>>
    /\ line = 1
    /\ days = <<>>
    /\ line_times = <<>>
    /\ booked_user = <<>>
    /\ notify_idx = 1
    /\ notified_user_ids = <<>>
    /\ main_status_updates = <<>>
    /\ main_messages = <<>>
    /\ saltala_calls = <<>>
    /\ exit_code = <<>>
    /\ raised = "none"

\* autobook_fifo before it is called.
FifoIdle ==
    /\ times = <<>>
    /\ autobook_users = <<>>
    /\ pc = "idle"
    /\ idx = 1
    /\ remaining_times = <<>>
    /\ booked = <<>>
    /\ snapshot = <<>>
    /\ attempts = 0
    /\ ok = FALSE
    /\ calls = <<>>
    /\ held = {}
    /\ reservations = <<>>
    /\ status_updates = <<>>
    /\ messages = <<>>
    /\ transactions = 0

user == autobook_users[idx]

\* A faulty inner loop that walks the snapshot from its end.
t_reversed == snapshot[Len(snapshot) + 1 - attempts]

t == snapshot[attempts]

Init ==
    /\ times \in TimeLists
    /\ autobook_users \in UserLists
    /\ pc = "start"
    /\ idx = 1
    /\ remaining_times = <<>>
    /\ booked = <<>>
    /\ snapshot = <<>>
    /\ attempts = 0
    /\ ok = FALSE
    /\ calls = <<>>
    /\ held = {}
    /\ reservations = <<>>
    /\ status_updates = <<>>
    /\ messages = <<>>
    /\ transactions = 0
    /\ MainIdle

\* A faulty early return: the input list is handed back instead of [].
StartReturnsUsers ==
    /\ pc = "start"
    /\ IF times = <<>> \/ autobook_users = <<>>
       THEN /\ pc' = "done"
            /\ booked' = autobook_users
            /\ UNCHANGED remaining_times
       ELSE /\ pc' = "for_user"
            /\ booked' = <<>>
            /\ remaining_times' = times
    /\ UNCHANGED <<times, autobook_users, idx, snapshot, attempts, ok, calls,
                   held, reservations, status_updates, messages, transactions>>
    /\ UNCHANGED main_vars

\* autobook_fifo lines 229-238: the two early returns (return []), else
\* remaining_times = list(times) and booked = [].
Start ==
    /\ pc = "start"
    /\ IF times = <<>> \/ autobook_users = <<>>
       THEN /\ pc' = "done"
            /\ booked' = <<>>
            /\ UNCHANGED remaining_times
       ELSE /\ pc' = "for_user"
            /\ booked' = <<>>
            /\ remaining_times' = times
    /\ UNCHANGED <<times, autobook_users, idx, snapshot, attempts, ok, calls,
                   held, reservations, status_updates, messages, transactions>>
    /\ UNCHANGED main_vars

\* line 240: the candidate list is exhausted; return booked.
UsersExhausted ==
    /\ pc = "for_user"
    /\ idx > Len(autobook_users)
    /\ pc' = "done"
    /\ UNCHANGED <<times, autobook_users, idx, remaining_times, booked, snapshot,
                   attempts, ok, calls, held, reservations, status_updates,
                   messages, transactions>>
    /\ UNCHANGED main_vars

\* A faulty loop head without the break on an empty pool: the turn runs over
\* the input time list.
NoMoreTimesKeepsGoing ==
    /\ pc = "for_user"
    /\ idx <= Len(autobook_users)
    /\ remaining_times = <<>>
    /\ snapshot' = times
    /\ attempts' = 0
    /\ pc' = "for_time"
    /\ UNCHANGED <<times, autobook_users, idx, remaining_times, booked, ok, calls,
                   held, reservations, status_updates, messages, transactions>>
    /\ UNCHANGED main_vars

\* lines 243-245: no remaining time; break.
NoMoreTimes ==
    /\ pc = "for_user"
    /\ idx <= Len(autobook_users)
    /\ remaining_times = <<>>
    /\ pc' = "done"
    /\ UNCHANGED <<times, autobook_users, idx, remaining_times, booked, snapshot,
                   attempts, ok, calls, held, reservations, status_updates,
                   messages, transactions>>
    /\ UNCHANGED main_vars

\* lines 250-253: a candidate missing rut / first_name / last_name is skipped.
SkipUser ==
    /\ pc = "for_user"
    /\ idx <= Len(autobook_users)
    /\ remaining_times # <<>>
    /\ ~HasRequiredFields(user)
    /\ idx' = idx + 1
    /\ UNCHANGED <<times, autobook_users, pc, remaining_times, booked, snapshot,
                   attempts, ok, calls, held, reservations, status_updates,
                   messages, transactions>>
    /\ UNCHANGED main_vars

\* lines 255-259: the candidate's turn starts on a snapshot of the pool.
BeginTurn ==
    /\ pc = "for_user"
    /\ idx <= Len(autobook_users)
    /\ remaining_times # <<>>
    /\ HasRequiredFields(user)
    /\ snapshot' = remaining_times
    /\ attempts' = 0
    /\ pc' = "for_time"
    /\ UNCHANGED <<times, autobook_users, idx, remaining_times, booked, ok, calls,
                   held, reservations, status_updates, messages, transactions>>
    /\ UNCHANGED main_vars

\* lines 259-263 and book_appointment lines 172-174: the next time of the
\* snapshot is taken and book_appointment is entered.
book_appointment ==
    /\ pc = "for_time"
    /\ attempts < Len(snapshot)
    /\ attempts' = attempts + 1
    /\ transactions' = transactions + 1
    /\ calls' = <<>>
    /\ IF MissingUserData(user)
       THEN ok' = FALSE /\ pc' = "returned"
       ELSE ok' = FALSE /\ pc' = "block"
    /\ UNCHANGED <<times, autobook_users, idx, remaining_times, booked, snapshot,
                   held, reservations, status_updates, messages>>
    /\ UNCHANGED main_vars

\* A faulty inner loop that gives up after the first failed attempt.
TurnFailedAfterOne ==
    /\ pc = "for_time"
    /\ attempts >= 1 \/ snapshot = <<>>
    /\ idx' = idx + 1
    /\ pc' = "for_user"
    /\ UNCHANGED <<times, autobook_users, remaining_times, booked, snapshot,
                   attempts, ok, calls, held, reservations, status_updates,
                   messages, transactions>>
    /\ UNCHANGED main_vars

\* A faulty end of turn that marks the candidate inactive although nothing
\* was booked.
TurnFailedMarksInactive ==
    /\ pc = "for_time"
    /\ attempts >= Len(snapshot)
    /\ idx' = idx + 1
    /\ pc' = "for_user"
    /\ status_updates' = Append(status_updates, [id |-> user.id, status |-> "inactive"])
    /\ UNCHANGED <<times, autobook_users, remaining_times, booked, snapshot,
                   attempts, ok, calls, held, reservations,
                   messages, transactions>>
    /\ UNCHANGED main_vars

\* lines 295-296: the snapshot is exhausted without a booking.
TurnFailed ==
    /\ pc = "for_time"
    /\ attempts >= Len(snapshot)
    /\ idx' = idx + 1
    /\ pc' = "for_user"
    /\ UNCHANGED <<times, autobook_users, remaining_times, booked, snapshot,
                   attempts, ok, calls, held, reservations, status_updates,
                   messages, transactions>>
    /\ UNCHANGED main_vars

\* A faulty block_slot whose failure is not acted on: the reservation is
\* attempted whatever the block call answered.
block_slot_result_ignored ==
    /\ pc = "block"
    /\ \E resp \in GatewayResponses :
        /\ calls' = Append(calls, [op |-> "block", payload |-> BlockPayload(t, user.rut),
                                   resp |-> resp])
        /\ held' = IF PostRaises(resp) THEN held ELSE held \cup {t}
    /\ ok' = ok
    /\ pc' = "reserve"
    /\ UNCHANGED <<times, autobook_users, idx, remaining_times, booked, snapshot,
                   attempts, reservations, status_updates, messages, transactions>>
    /\ UNCHANGED main_vars

\* block_slot (lines 38-54) and book_appointment lines 178-180: one POST of
\* addReservationTemporalBlock; SaltalaAPIError makes block_slot return
\* False and book_appointment return False.
block_slot ==
    /\ pc = "block"
    /\ \E resp \in GatewayResponses :
        /\ calls' = Append(calls, [op |-> "block", payload |-> BlockPayload(t, user.rut),
                                   resp |-> resp])
        /\ IF ~PostRaises(resp)
           THEN /\ ok' = ok
                /\ pc' = "reserve"
                /\ held' = held \cup {t}
           ELSE IF Caught(PostException(resp))
           THEN /\ ok' = FALSE
                /\ pc' = "returned"
                /\ UNCHANGED held
           ELSE /\ pc' = "raised"
                /\ UNCHANGED <<ok, held>>
    /\ UNCHANGED <<times, autobook_users, idx, remaining_times, booked, snapshot,
                   attempts, reservations, status_updates, messages, transactions>>
    /\ UNCHANGED main_vars

\* A faulty generate_reservation step: a failed reservation returns at once,
\* without the cleanup call.
generate_reservation_no_cleanup ==
    /\ pc = "reserve"
    /\ \E resp \in GatewayResponses :
        /\ calls' = Append(calls, [op |-> "reserve",
                                   payload |-> [time |-> t, rut |-> user.rut],
                                   resp |-> resp])
        /\ IF PostRaises(resp)
           THEN /\ pc' = "returned"
                /\ ok' = FALSE
                /\ UNCHANGED <<held, reservations>>
           ELSE /\ pc' = "returned"
                /\ ok' = TRUE
                /\ held' = held \ {t}
                /\ reservations' = Append(reservations, [time |-> t, rut |-> user.rut])
    /\ UNCHANGED <<times, autobook_users, idx, remaining_times, booked, snapshot,
                   attempts, status_updates, messages, transactions>>
    /\ UNCHANGED main_vars

\* generate_reservation (lines 83-113) and book_appointment lines 184-197:
\* one POST of generateReservation; on SaltalaAPIError the result is False
\* and book_appointment goes on to remove_block, else it returns True.
generate_reservation ==
    /\ pc = "reserve"
    /\ \E resp \in GatewayResponses :
        /\ calls' = Append(calls, [op |-> "reserve",
                                   payload |-> [time |-> t, rut |-> user.rut],
                                   resp |-> resp])
        /\ IF ~PostRaises(resp)
           THEN /\ pc' = "returned"
                /\ ok' = TRUE
                /\ held' = held \ {t}
                /\ reservations' = Append(reservations, [time |-> t, rut |-> user.rut])
           ELSE IF Caught(PostException(resp))
           THEN /\ pc' = "release"
                /\ ok' = FALSE
                /\ UNCHANGED <<held, reservations>>
           ELSE /\ pc' = "raised"
                /\ UNCHANGED <<ok, held, reservations>>
    /\ UNCHANGED <<times, autobook_users, idx, remaining_times, booked, snapshot,
                   attempts, status_updates, messages, transactions>>
    /\ UNCHANGED main_vars

\* A faulty cleanup that releases the first time of the snapshot instead of
\* the time of the transaction.
remove_block_first_time ==
    /\ pc = "release"
    /\ \E resp \in GatewayResponses :
        /\ calls' = Append(calls, [op |-> "release",
                                   payload |-> RemovePayload(snapshot[1], user.rut),
                                   resp |-> resp])
        /\ held' = IF PostRaises(resp) THEN held ELSE held \ {snapshot[1]}
        /\ pc' = IF PostRaises(resp) /\ ~Caught(PostException(resp))
                 THEN "raised" ELSE "returned"
    /\ UNCHANGED <<times, autobook_users, idx, remaining_times, booked, snapshot,
                   attempts, ok, reservations, status_updates, messages, transactions>>
    /\ UNCHANGED main_vars

\* remove_block (lines 126-139), called from book_appointment line 193: one
\* POST of removeReservationTemporalBlock; SaltalaAPIError is logged only.
\* In the three wrappers an exception of another class would propagate out
\* of book_appointment and autobook_fifo (pc "raised"): neither has a try.
remove_block ==
    /\ pc = "release"
    /\ \E resp \in GatewayResponses :
        /\ calls' = Append(calls, [op |-> "release", payload |-> RemovePayload(t, user.rut),
                                   resp |-> resp])
        /\ held' = IF PostRaises(resp) THEN held ELSE held \ {t}
        /\ pc' = IF PostRaises(resp) /\ ~Caught(PostException(resp))
                 THEN "raised" ELSE "returned"
    /\ UNCHANGED <<times, autobook_users, idx, remaining_times, booked, snapshot,
                   attempts, ok, reservations, status_updates, messages, transactions>>
    /\ UNCHANGED main_vars

\* A faulty failure branch that consumes the time it failed on.
AttemptFailedConsumes ==
    /\ pc = "returned"
    /\ ~ok
    /\ pc' = "for_time"
    /\ calls' = <<>>
    /\ remaining_times' = RemoveFirst(remaining_times, t)
    /\ UNCHANGED <<times, autobook_users, idx, booked, snapshot, attempts, ok,
                   held, reservations, status_updates, messages, transactions>>
    /\ UNCHANGED main_vars

\* lines 273-275: the attempt failed; go on with the next time.
AttemptFailed ==
    /\ pc = "returned"
    /\ ~ok
    /\ pc' = "for_time"
    /\ calls' = <<>>
    /\ remaining_times' = remaining_times
    /\ UNCHANGED <<times, autobook_users, idx, booked, snapshot, attempts, ok,
                   held, reservations, status_updates, messages, transactions>>
    /\ UNCHANGED main_vars

\* A faulty success branch that treats a failed status update as a failed
\* attempt.
MarkInactiveOrRetry ==
    /\ pc = "returned"
    /\ ok
    /\ \E resp \in GatewayResponses : LET updated == RequestSucceeds(resp) IN
        /\ status_updates' = IF Truthy(user.id)
                             THEN Append(status_updates, [id |-> user.id, status |-> "inactive"])
                             ELSE status_updates
        /\ calls' = IF Truthy(user.id)
                    THEN <<[op |-> "update_user_status", ok |-> updated]>>
                    ELSE <<>>
        /\ pc' = IF Truthy(user.id) /\ ~updated THEN "for_time" ELSE "confirm"
    /\ UNCHANGED <<times, autobook_users, idx, remaining_times, booked, snapshot,
                   attempts, ok, held, reservations, messages, transactions>>
    /\ UNCHANGED main_vars

\* lines 277-284: the booking succeeded; mark the candidate inactive when it
\* has an id. The result of update_user_status is only logged; calls keeps
\* it as the outcome of the call.
MarkInactive ==
    /\ pc = "returned"
    /\ ok
    /\ \E resp \in GatewayResponses : LET updated == RequestSucceeds(resp) IN
        /\ status_updates' = IF Truthy(user.id)
                             THEN Append(status_updates, [id |-> user.id, status |-> "inactive"])
                             ELSE status_updates
        /\ calls' = IF Truthy(user.id)
                    THEN <<[op |-> "update_user_status", ok |-> updated]>>
                    ELSE <<>>
    /\ pc' = "confirm"
    /\ UNCHANGED <<times, autobook_users, idx, remaining_times, booked, snapshot,
                   attempts, ok, held, reservations, messages, transactions>>
    /\ UNCHANGED main_vars

\* A faulty success branch that forgets remaining_times.remove(t).
ConfirmWithoutConsume ==
    /\ pc = "confirm"
    /\ \E resp \in GatewayResponses :
        /\ messages' = Append(messages, [phone |-> user.phone,
                                         template |-> "booking_confirmed", time |-> t])
        /\ calls' = Append(calls, [op |-> "send_template_message",
                                   ok |-> SendResult(user.phone, resp)])
    /\ booked' = Append(booked, user)
    /\ remaining_times' = remaining_times
    /\ idx' = idx + 1
    /\ pc' = "for_user"
    /\ UNCHANGED <<times, autobook_users, snapshot, attempts, ok, held,
                   reservations, status_updates, transactions>>
    /\ UNCHANGED main_vars

\* A faulty success branch that drops every time tried in the turn, the
\* failed ones included (remaining_times = remaining_times[attempts:]).
ConfirmDropsTried ==
    /\ pc = "confirm"
    /\ \E resp \in GatewayResponses :
        /\ messages' = Append(messages, [phone |-> user.phone,
                                         template |-> "booking_confirmed", time |-> t])
        /\ calls' = Append(calls, [op |-> "send_template_message",
                                   ok |-> SendResult(user.phone, resp)])
    /\ booked' = Append(booked, user)
    /\ remaining_times' = SubSeq(remaining_times, attempts + 1, Len(remaining_times))
    /\ idx' = idx + 1
    /\ pc' = "for_user"
    /\ UNCHANGED <<times, autobook_users, snapshot, attempts, ok, held,
                   reservations, status_updates, transactions>>
    /\ UNCHANGED main_vars

\* lines 286-293: send the confirmation (result ignored; calls keeps it), append the user to
\* booked, remove the time from the pool, and break out of the inner loop.
ConfirmAndConsume ==
    /\ pc = "confirm"
    /\ \E resp \in GatewayResponses :
        /\ messages' = Append(messages, [phone |-> user.phone,
                                         template |-> "booking_confirmed", time |-> t])
        /\ calls' = Append(calls, [op |-> "send_template_message",
                                   ok |-> SendResult(user.phone, resp)])
    /\ booked' = Append(booked, user)
    /\ remaining_times' = RemoveFirst(remaining_times, t)
    /\ idx' = idx + 1
    /\ pc' = "for_user"
    /\ UNCHANGED <<times, autobook_users, snapshot, attempts, ok, held,
                   reservations, status_updates, transactions>>
    /\ UNCHANGED main_vars

Next ==
    \/ Start
    \/ UsersExhausted
    \/ NoMoreTimes
    \/ SkipUser
    \/ BeginTurn
    \/ book_appointment
    \/ TurnFailed
    \/ block_slot
    \/ generate_reservation
    \/ remove_block
    \/ AttemptFailed
    \/ MarkInactive
    \/ ConfirmAndConsume

Spec == Init /\ [][Next]_vars

\* The loop body is straight-line Python: a step that can be taken is taken.
SpecFair == Spec /\ WF_vars(Next)

\* The runs in which the gateway accepts every release call.
ReleaseAccepted ==
    pc = "release" => (calls' # <<>> /\ calls'[Len(calls')].resp.status = 200)

NextReleaseAccepted ==
    \/ Start
    \/ UsersExhausted
    \/ NoMoreTimes
    \/ SkipUser
    \/ BeginTurn
    \/ book_appointment
    \/ TurnFailed
    \/ block_slot
    \/ generate_reservation
    \/ (remove_block /\ ReleaseAccepted)
    \/ AttemptFailed
    \/ MarkInactive
    \/ ConfirmAndConsume

SpecReleaseAccepted == Init /\ [][NextReleaseAccepted]_vars

\* ------------------------------------------------- check_lobarnechea.main
\* A faulty selection that takes every active user as a booking candidate.
main_all_active_users == active_users

\* The users of active_users with mode "autobook" (line 450).
main_autobook_users == SelectSeq(active_users, LAMBDA u : u.mode = "autobook")

\* book_appointment of check_lobarnechea.py (lines 381-434) for first_user
\* at first_time: its gateway calls, each with its outcome.  Every exception
\* of a call is caught (except Exception); a failed block returns False, a
\* failed reserve releases the block and returns False.
LegacyBookingCalls(u, tm, rb, rr, rl) ==
    LET entry(op, resp) == [op |-> op, line |-> targets[line], id |-> u.id,
                            time |-> tm, ok |-> GetException(resp) = "none"]
    IN IF MissingUserData(u) THEN <<>>
       ELSE IF GetException(rb) # "none" THEN <<entry("block", rb)>>
       ELSE IF GetException(rr) # "none"
            THEN <<entry("block", rb), entry("reserve", rr), entry("release", rl)>>
       ELSE <<entry("block", rb), entry("reserve", rr)>>

LegacyBookingResult(log) == log # <<>> /\ log[Len(log)].op = "reserve" /\ log[Len(log)].ok

InitMain ==
    /\ FifoIdle
    /\ directory \in Directories
    /\ targets \in TargetLists
    /\ main_pc = "start"
    /\ active_users = <<>>
    /\ pending_users = <<>>
    /\ line = 1
    /\ days = <<>>
    /\ line_times = <<>>
    /\ booked_user = <<>>
    /\ notify_idx = 1
    /\ notified_user_ids = <<>>
    /\ main_status_updates = <<>>
    /\ main_messages = <<>>
    /\ saltala_calls = <<>>
    /\ exit_code = <<>>
    /\ raised = "none"

\* lines 441-448: fetch the active users and the pending users to follow
\* up; with neither, return 0.
fetch_users ==
    /\ main_pc = "start"
    /\ \E ra, rp \in GatewayResponses :
        /\ active_users' = get_active_users(directory, ra)
        /\ pending_users' = get_pending_users_to_reactivate(directory, FollowupHours, rp)
    /\ IF active_users' = <<>> /\ pending_users' = <<>>
       THEN main_pc' = "done" /\ exit_code' = <<0>>
       ELSE main_pc' = "followup" /\ UNCHANGED exit_code
    /\ UNCHANGED <<directory, targets, line, days, line_times, booked_user,
                   notify_idx, notified_user_ids, main_status_updates,
                   main_messages, saltala_calls, raised>>
    /\ UNCHANGED fifo_vars

\* lines 456-474: one follow-up text to every pending user that has a
\* phone (the result of the send is not read), then the loop over targets.
send_followups ==
    /\ main_pc = "followup"
    /\ LET with_phone == SelectSeq(pending_users, LAMBDA u : Truthy(u.phone))
       IN main_messages' = main_messages \o
              [k \in DOMAIN with_phone |->
                  [id |-> with_phone[k].id, kind |-> "followup", result |-> "unread"]]
    /\ main_pc' = "days"
    /\ line' = 1
    /\ UNCHANGED <<directory, targets, active_users, pending_users, days,
                   line_times, booked_user, notify_idx, notified_user_ids,
                   main_status_updates, saltala_calls, exit_code, raised>>
    /\ UNCHANGED fifo_vars

\* lines 478-487: list the days of the current line; any exception, or an
\* empty list, moves on to the next line.
get_available_days ==
    /\ main_pc = "days"
    /\ line <= Len(targets)
    /\ \E resp \in GetResponses, answer \in DayLists :
        /\ resp.status # 200 => answer = <<>>
        /\ saltala_calls' = Append(saltala_calls,
               [op |-> "days", line |-> targets[line], id |-> None, time |-> 0,
                ok |-> GetException(resp) = "none"])
        /\ IF GetException(resp) # "none" \/ answer = <<>>
           THEN /\ line' = line + 1
                /\ UNCHANGED <<days, main_pc>>
           ELSE /\ days' = answer
                /\ main_pc' = "times"
                /\ UNCHANGED line
    /\ UNCHANGED <<directory, targets, active_users, pending_users, line_times,
                   booked_user, notify_idx, notified_user_ids, main_status_updates,
                   main_messages, exit_code, raised>>
    /\ UNCHANGED fifo_vars

\* lines 563-564: no line had days; return 0.
no_days ==
    /\ main_pc = "days"
    /\ line > Len(targets)
    /\ main_pc' = "done"
    /\ exit_code' = <<0>>
    /\ UNCHANGED <<directory, targets, active_users, pending_users, line, days,
                   line_times, booked_user, notify_idx, notified_user_ids,
                   main_status_updates, main_messages, saltala_calls, raised>>
    /\ UNCHANGED fifo_vars

\* line 493 and get_available_times (lines 352-378): requests.HTTPError
\* gives []; any other exception of _get leaves get_available_times and,
\* line 493 being outside every try, main.
get_available_times ==
    /\ main_pc = "times"
    /\ \E resp \in GetResponses, answer \in LineTimeLists :
        /\ resp.status # 200 => answer = <<>>
        /\ saltala_calls' = Append(saltala_calls,
               [op |-> "times", line |-> targets[line], id |-> None, time |-> 0,
                ok |-> GetException(resp) = "none"])
        /\ IF GetException(resp) \in {"none", "HTTPError"}
           THEN /\ line_times' = answer
                /\ main_pc' = "book"
                /\ UNCHANGED raised
           ELSE /\ raised' = GetException(resp)
                /\ main_pc' = "raised"
                /\ UNCHANGED line_times
    /\ UNCHANGED <<directory, targets, active_users, pending_users, line, days,
                   booked_user, notify_idx, notified_user_ids, main_status_updates,
                   main_messages, exit_code>>
    /\ UNCHANGED fifo_vars

\* lines 496-524: with times and autobook users, one booking transaction
\* for the first autobook user at the first time; on success the user is
\* set inactive and sent a text (neither result is read).
book_first_user ==
    /\ main_pc = "book"
    /\ IF line_times # <<>> /\ main_autobook_users # <<>>
       THEN LET first_time == line_times[1]
                first_user == main_autobook_users[1]
            IN \E rb, rr, rl \in GetResponses :
                LET log == LegacyBookingCalls(first_user, first_time, rb, rr, rl) IN
                /\ saltala_calls' = saltala_calls \o log
                /\ IF LegacyBookingResult(log)
                   THEN /\ booked_user' = <<first_user>>
                        /\ main_status_updates' = Append(main_status_updates,
                               [id |-> first_user.id, status |-> "inactive"])
                        /\ main_messages' = Append(main_messages,
                               [id |-> first_user.id, kind |-> "booked", result |-> "unread"])
                   ELSE UNCHANGED <<booked_user, main_status_updates, main_messages>>
       ELSE UNCHANGED <<saltala_calls, booked_user, main_status_updates, main_messages>>
    /\ main_pc' = "notify"
    /\ notify_idx' = 1
    /\ notified_user_ids' = <<>>
    /\ UNCHANGED <<directory, targets, active_users, pending_users, line, days,
                   line_times, exit_code, raised>>
    /\ UNCHANGED fifo_vars

\* A faulty notification step that records the user as notified whatever
\* the sends returned.
notify_user_unconditional ==
    /\ main_pc = "notify"
    /\ notify_idx <= Len(active_users)
    /\ LET u == active_users[notify_idx] IN
       IF (booked_user # <<>> /\ u.id = booked_user[1].id) \/ ~Truthy(u.phone)
       THEN UNCHANGED <<main_messages, notified_user_ids>>
       ELSE \E rt, rx \in GatewayResponses :
            LET template_ok == SendResult(u.phone, rt)
                text_ok == SendResult(u.phone, rx)
            IN /\ main_messages' =
                     IF template_ok
                     THEN Append(main_messages,
                            [id |-> u.id, kind |-> "slot_available", result |-> "sent"])
                     ELSE main_messages \o
                          <<[id |-> u.id, kind |-> "slot_available", result |-> "failed"],
                            [id |-> u.id, kind |-> "text",
                             result |-> IF text_ok THEN "sent" ELSE "failed"]>>
               /\ notified_user_ids' = Append(notified_user_ids, u.id)
    /\ notify_idx' = notify_idx + 1
    /\ UNCHANGED <<directory, targets, main_pc, active_users, pending_users, line,
                   days, line_times, booked_user, main_status_updates,
                   saltala_calls, exit_code, raised>>
    /\ UNCHANGED fifo_vars

\* A faulty notification step without the test for the booked user.
notify_user_including_booked ==
    /\ main_pc = "notify"
    /\ notify_idx <= Len(active_users)
    /\ LET u == active_users[notify_idx] IN
       IF ~Truthy(u.phone)
       THEN UNCHANGED <<main_messages, notified_user_ids>>
       ELSE \E rt, rx \in GatewayResponses :
            LET template_ok == SendResult(u.phone, rt)
                text_ok == SendResult(u.phone, rx)
            IN /\ main_messages' =
                     IF template_ok
                     THEN Append(main_messages,
                            [id |-> u.id, kind |-> "slot_available", result |-> "sent"])
                     ELSE main_messages \o
                          <<[id |-> u.id, kind |-> "slot_available", result |-> "failed"],
                            [id |-> u.id, kind |-> "text",
                             result |-> IF text_ok THEN "sent" ELSE "failed"]>>
               /\ notified_user_ids' =
                     IF template_ok \/ text_ok
                     THEN Append(notified_user_ids, u.id) ELSE notified_user_ids
    /\ notify_idx' = notify_idx + 1
    /\ UNCHANGED <<directory, targets, main_pc, active_users, pending_users, line,
                   days, line_times, booked_user, main_status_updates,
                   saltala_calls, exit_code, raised>>
    /\ UNCHANGED fifo_vars

\* lines 527-553: the next active user, unless it is the booked one or has
\* no phone, is sent the slot_available template and, if that fails, the
\* text; its id is recorded when one of the two sends succeeded.
notify_user ==
    /\ main_pc = "notify"
    /\ notify_idx <= Len(active_users)
    /\ LET u == active_users[notify_idx] IN
       IF (booked_user # <<>> /\ u.id = booked_user[1].id) \/ ~Truthy(u.phone)
       THEN UNCHANGED <<main_messages, notified_user_ids>>
       ELSE \E rt, rx \in GatewayResponses :
            LET template_ok == SendResult(u.phone, rt)
                text_ok == SendResult(u.phone, rx)
            IN /\ main_messages' =
                     IF template_ok
                     THEN Append(main_messages,
                            [id |-> u.id, kind |-> "slot_available", result |-> "sent"])
                     ELSE main_messages \o
                          <<[id |-> u.id, kind |-> "slot_available", result |-> "failed"],
                            [id |-> u.id, kind |-> "text",
                             result |-> IF text_ok THEN "sent" ELSE "failed"]>>
               /\ notified_user_ids' =
                     IF template_ok \/ text_ok
                     THEN Append(notified_user_ids, u.id) ELSE notified_user_ids
    /\ notify_idx' = notify_idx + 1
    /\ UNCHANGED <<directory, targets, main_pc, active_users, pending_users, line,
                   days, line_times, booked_user, main_status_updates,
                   saltala_calls, exit_code, raised>>
    /\ UNCHANGED fifo_vars

\* A faulty last step that sets every active user to pending.
mark_pending_all_active ==
    /\ main_pc = "notify"
    /\ notify_idx > Len(active_users)
    /\ main_status_updates' = main_status_updates \o
           [k \in DOMAIN active_users |->
               [id |-> active_users[k].id, status |-> "pending"]]
    /\ main_pc' = "done"
    /\ exit_code' = <<0>>
    /\ UNCHANGED <<directory, targets, active_users, pending_users, line, days,
                   line_times, booked_user, notify_idx, notified_user_ids,
                   main_messages, saltala_calls, raised>>
    /\ UNCHANGED fifo_vars

\* lines 555-561: every notified id is set to pending (results not read);
\* return 0.
mark_pending ==
    /\ main_pc = "notify"
    /\ notify_idx > Len(active_users)
    /\ main_status_updates' = main_status_updates \o
           [k \in DOMAIN notified_user_ids |->
               [id |-> notified_user_ids[k], status |-> "pending"]]
    /\ main_pc' = "done"
    /\ exit_code' = <<0>>
    /\ UNCHANGED <<directory, targets, active_users, pending_users, line, days,
                   line_times, booked_user, notify_idx, notified_user_ids,
                   main_messages, saltala_calls, raised>>
    /\ UNCHANGED fifo_vars

NextMain ==
    \/ fetch_users
    \/ send_followups
    \/ get_available_days
    \/ no_days
    \/ get_available_times
    \/ book_first_user
    \/ notify_user
    \/ mark_pending

SpecMain == InitMain /\ [][NextMain]_vars

\* Both programs: a behaviour is a run of autobook_fifo or a cycle of main.
SpecBoth == (Init \/ InitMain) /\ [][Next \/ NextMain]_vars

\* ======================================================================
\* Properties
\* ======================================================================

\* The notions the properties are stated in, independent of the code's tests.

\* A gateway call failed: a transport error or a non-2xx answer.
CallFailed(resp) == resp.exc # "none" \/ resp.status \notin 200..299

\* A required field is missing (None) or empty.
LacksRequiredField(u) ==
    \/ u.rut = None \/ u.rut = <<>>
    \/ u.first_name = None \/ u.first_name = <<>>
    \/ u.last_name = None \/ u.last_name = <<>>

IsEligible(u) == ~LacksRequiredField(u)

\* The calls of the current invocation with a given operation.
CallsOf(op) == {k \in DOMAIN calls : calls[k].op = op}

Min(a, b) == IF a <= b THEN a ELSE b

\* Positions at which a candidate's turn is in progress.
TurnPcs == {"for_time", "block", "reserve", "release", "returned", "confirm"}

\* C1: one run never confirms two reservations for the same time value
\* (each time is the time of at most one successful book_appointment).
C1_SlotUniqueness ==
    \A i, j \in DOMAIN reservations :
        i # j => reservations[i].time # reservations[j].time

\* C2: the returned list never holds two entries with the same candidate
\* identifier.
C2_CandidateUniqueness ==
    \A i, j \in DOMAIN booked :
        (i # j /\ Truthy(booked[i].id)) => booked[i].id # booked[j].id

\* C3: book_appointment returns success iff its block call and then its
\* reserve call succeeded; reserve is issued only after a successful block
\* of the same invocation; block and reserve are issued at most once each.
C3_SuccessIffBlockThenReserve ==
    /\ Cardinality(CallsOf("block")) <= 1
    /\ Cardinality(CallsOf("reserve")) <= 1
    /\ \A k \in CallsOf("reserve") :
          k = 2 /\ calls[1].op = "block" /\ ~CallFailed(calls[1].resp)
    /\ pc = "returned" =>
          (ok <=> /\ Len(calls) = 2
                  /\ calls[1].op = "block" /\ ~CallFailed(calls[1].resp)
                  /\ calls[2].op = "reserve" /\ ~CallFailed(calls[2].resp))

C3_Witness ==
    /\ pc = "returned" /\ ok
    /\ Len(calls) = 2 /\ calls[2].op = "reserve"

\* C4: when block succeeds and reserve fails, exactly one release call is
\* issued and book_appointment returns failure, whatever the release call
\* answers.
C4_ReleaseOnceAfterFailedReserve ==
    (/\ pc = "returned"
     /\ Len(calls) >= 2
     /\ calls[1].op = "block" /\ ~CallFailed(calls[1].resp)
     /\ calls[2].op = "reserve" /\ CallFailed(calls[2].resp))
    => /\ Cardinality(CallsOf("release")) = 1
       /\ Len(calls) = 3 /\ calls[3].op = "release"
       /\ ~ok

C4_Witness ==
    /\ pc = "returned" /\ ~ok
    /\ Len(calls) = 3
    /\ CallFailed(calls[2].resp)
    /\ calls[3].op = "release" /\ CallFailed(calls[3].resp)

\* C5: when the block call fails (transport error or non-2xx answer, a
\* domain rejection among them), book_appointment returns failure at once:
\* no reserve call, no release call, and the gateway's slot state is as
\* before the invocation.
C5_FailedBlockStep ==
    (pc = "block" /\ calls' # calls /\ CallFailed(calls'[Len(calls')].resp))
    => /\ pc' = "returned"
       /\ ~ok'
       /\ Len(calls') = 1 /\ calls'[1].op = "block"
       /\ held' = held
       /\ reservations' = reservations

C6_SkipStep ==
    (pc = "for_user" /\ idx <= Len(autobook_users) /\ LacksRequiredField(user))
    => /\ pc' \in {"for_user", "done"}
       /\ pc' = "for_user" => idx' = idx + 1
       /\ UNCHANGED <<booked, remaining_times, calls, held, reservations,
                      status_updates, messages, transactions>>

C6_IneligibleNeverBooked ==
    /\ [](\A i \in DOMAIN booked : ~LacksRequiredField(booked[i]))
    /\ [](pc \in TurnPcs => ~LacksRequiredField(user))
    /\ [][C6_SkipStep]_vars

C6_Witness ==
    /\ pc = "done"
    /\ Len(autobook_users) = 2
    /\ LacksRequiredField(autobook_users[1])
    /\ booked = <<autobook_users[2]>>
    /\ Len(reservations) = 1 /\ Len(messages) = 1

\* C7: with times ascending and every transaction succeeding on its first
\* attempt, exactly min(N, M) candidates are booked, M the number of
\* eligible candidates: the first min(N, M) eligible candidates in input
\* order, the i-th at the i-th earliest time.
EligibleUsers == SelectSeq(autobook_users, IsEligible)

C7_AllSucceedPairsInOrder ==
    (pc = "done" /\ IsAscending(times) /\ transactions = Len(reservations))
    => LET k == Min(Len(times), Len(EligibleUsers)) IN
       /\ Len(booked) = k
       /\ Len(reservations) = k
       /\ \A i \in 1..k :
            /\ booked[i] = EligibleUsers[i]
            /\ reservations[i].time = times[i]
            /\ reservations[i].rut = EligibleUsers[i].rut

C7_Witness ==
    /\ pc = "done"
    /\ Len(times) = 3 /\ times[1] < times[2]
    /\ Len(EligibleUsers) = 2
    /\ transactions = 2 /\ Len(reservations) = 2
    /\ Len(booked) = 2

\* C8: when a candidate's first attempted time fails and a later time
\* succeeds, the candidate is booked at the later time, the failed time
\* stays at the head of the pool, and the next candidate's turn runs over
\* that pool, starting with the failed time.
C8_CommitStep ==
    (pc = "confirm" /\ pc' = "for_user" /\ attempts > 1 /\ t # snapshot[1])
    => /\ booked' = Append(booked, user)
       /\ reservations[Len(reservations)].time = t
       /\ reservations[Len(reservations)].rut = user.rut
       /\ remaining_times' # <<>>
       /\ remaining_times'[1] = snapshot[1]

C8_NextTurnStep ==
    /\ (pc = "for_user" /\ pc' = "for_time") => snapshot' = remaining_times
    /\ (pc = "block" /\ calls' # calls /\ attempts = 1)
          => calls'[1].payload.time = remaining_times[1]

C8_FailedTimeStaysAvailable == [][C8_CommitStep /\ C8_NextTurnStep]_vars

C8_Witness ==
    /\ idx = 2 /\ pc = "reserve" /\ attempts = 1
    /\ Len(reservations) = 1
    /\ reservations[1].time > t
    /\ calls[1].payload.time = times[1]

\* C9: when every transaction of a candidate's turn fails, the turn adds
\* nothing to the returned list and leaves the pool as it was at the start
\* of the turn (same values, same order).
C9_TurnFailedStep ==
    /\ (pc = "for_time" /\ pc' = "for_user")
          => /\ attempts = Len(snapshot)
             /\ remaining_times = snapshot
             /\ UNCHANGED <<remaining_times, booked>>
    /\ booked' # booked
          => (pc = "start" \/ (pc = "confirm" /\ ok /\ booked' = Append(booked, user)))

C9_FailedTurnLeavesPool ==
    /\ [](pc \in TurnPcs => remaining_times = snapshot)
    /\ [][C9_TurnFailedStep]_vars

C9_Witness ==
    /\ pc = "for_user" /\ idx = 2
    /\ Len(times) = 3 /\ transactions = 3
    /\ booked = <<>>
    /\ remaining_times = times

\* C10: with an empty candidate list or an empty time list the run returns
\* an empty list at once, never changes the time list, and makes no
\* gateway, user-directory or notifier call.
C10_EmptyInputNoEffect ==
    (times = <<>> \/ autobook_users = <<>>)
    => /\ pc \in {"start", "done"}
       /\ booked = <<>>
       /\ remaining_times = <<>>
       /\ transactions = 0 /\ calls = <<>>
       /\ held = {} /\ reservations = <<>>
       /\ status_updates = <<>> /\ messages = <<>>

C10_EmptyInputs == []C10_EmptyInputNoEffect /\ [][times' = times]_vars

C10_Witness ==
    /\ pc = "done"
    /\ times = <<>> /\ autobook_users # <<>>
    /\ booked = <<>>

\* C11: while the run is in its loop or has left it, the pool is the input
\* time list with one entry removed per confirmed booking (so
\* Len(remaining_times) + Len(booked) = Len(times)); the pool changes only
\* by the removal of the time whose reservation was just confirmed, never
\* after a failed block or a failed reserve.
RECURSIVE RemoveEach(_, _)
RemoveEach(pool, taken) ==
    IF taken = <<>> THEN pool
    ELSE LET i == CHOOSE k \in DOMAIN pool : pool[k] = taken[1] /\
                       \A j \in 1..(k - 1) : pool[j] # taken[1]
         IN RemoveEach(SubSeq(pool, 1, i - 1) \o SubSeq(pool, i + 1, Len(pool)),
                       Tail(taken))

ConfirmedTimes == [i \in 1..Len(booked) |-> reservations[i].time]

C11_PoolIsInputMinusBooked ==
    (pc # "start" /\ times # <<>> /\ autobook_users # <<>>)
    => /\ Len(remaining_times) + Len(booked) = Len(times)
       /\ Len(reservations) \in {Len(booked), Len(booked) + 1}
       /\ \A i \in DOMAIN ConfirmedTimes :
             \E k \in DOMAIN times : times[k] = ConfirmedTimes[i]
       /\ remaining_times = RemoveEach(times, ConfirmedTimes)

C11_RemovalStep ==
    /\ (remaining_times' # remaining_times /\ pc # "start")
          => /\ Len(reservations) = Len(booked) + 1
             /\ reservations[Len(reservations)].time = t
             /\ Len(remaining_times') = Len(remaining_times) - 1
             /\ remaining_times = RemoveEach(times, ConfirmedTimes)
             /\ booked' = Append(booked, user)
    /\ (calls' # calls /\ calls' # <<>> /\ calls'[Len(calls')].op \in {"block", "reserve"}
          /\ CallFailed(calls'[Len(calls')].resp))
          => remaining_times' = remaining_times
    /\ (pc = "returned" /\ \E k \in DOMAIN calls : calls[k].op \in {"block", "reserve"}
                                                   /\ CallFailed(calls[k].resp))
          => remaining_times' = remaining_times

C11_PoolShrinksOnlyOnConfirm ==
    []C11_PoolIsInputMinusBooked /\ [][C11_RemovalStep]_vars

C11_Witness ==
    /\ pc = "for_user" /\ idx = 2
    /\ Len(booked) = 1 /\ transactions = 2
    /\ Len(times) = 3 /\ remaining_times = <<times[1], times[3]>>

\* C12: after a confirmed reservation, a failed status update to inactive
\* and/or a failed confirmation message change nothing: the candidate is
\* appended to booked, the time leaves the pool, no release call is made,
\* and the allocator goes on to the next candidate.
FailedSideEffects(log) ==
    {k \in DOMAIN log : log[k].op \in {"update_user_status", "send_template_message"}
                         /\ ~log[k].ok}

C12_SideEffectStep ==
    /\ (pc = "returned" /\ Len(reservations) = Len(booked) + 1)
          => /\ pc' = "confirm"
             /\ UNCHANGED <<booked, remaining_times, held, reservations, idx>>
             /\ \A k \in DOMAIN calls' : calls'[k].op # "release"
    /\ (pc = "confirm" /\ FailedSideEffects(calls') # {})
          => /\ booked' = Append(booked, user)
             /\ Len(remaining_times') = Len(remaining_times) - 1
             /\ \A k \in DOMAIN remaining_times' :
                    remaining_times'[k] = remaining_times[IF k < attempts THEN k ELSE k + 1]
             /\ \A k \in DOMAIN calls' : calls'[k].op # "release"
             /\ UNCHANGED <<held, reservations>>
             /\ idx' = idx + 1 /\ pc' = "for_user"

C12_SideEffectFailuresIgnored ==
    /\ [][C12_SideEffectStep]_vars
    /\ [](pc = "for_user" => ENABLED Next)

C12_Witness ==
    /\ pc = "for_time" /\ idx = 2
    /\ Len(booked) = 1 /\ booked[1] = autobook_users[1]
    /\ Cardinality(FailedSideEffects(calls)) = 2
    /\ Len(remaining_times) = Len(times) - 1

\* C19: no gateway failure at block, reserve or release (transport error,
\* timeout, status outside 2xx) escapes book_appointment: the attempt
\* returns failed, the run does not end, and the allocator goes on to the
\* next time of the snapshot for the same candidate.
C19_GatewayFailureStep ==
    /\ (calls' # calls /\ calls' # <<>>
          /\ calls'[Len(calls')].op \in {"block", "reserve", "release"}
          /\ CallFailed(calls'[Len(calls')].resp))
          => /\ ~ok'
             /\ pc' \in {"returned", "release"}
             /\ pc' = "release" <=> calls'[Len(calls')].op = "reserve"
    /\ (pc = "returned" /\ \E k \in DOMAIN calls : calls[k].op \in {"block", "reserve", "release"}
                                                   /\ CallFailed(calls[k].resp))
          => pc' = "for_time" /\ UNCHANGED <<idx, attempts, snapshot, booked>>
    /\ (pc = "for_time" /\ attempts >= 1 /\ attempts < Len(snapshot))
          => /\ idx' = idx /\ attempts' = attempts + 1
             /\ transactions' = transactions + 1
             /\ pc' \in {"block", "returned"}

C20_TransactionStep ==
    transactions' # transactions
    => /\ transactions' = transactions + 1
       /\ remaining_times # <<>>
       /\ remaining_times' # <<>>

C20_TerminatesWithinBound ==
    /\ <>(pc = "done")
    /\ [](transactions <= Len(autobook_users) * Len(times))
    /\ [][C20_TransactionStep]_vars
    /\ [][pc = "done" => pc' = "done"]_vars

C20_Witness ==
    /\ pc = "done"
    /\ Len(autobook_users) = 2 /\ Len(times) = 3
    /\ transactions = Len(autobook_users) * Len(times)

\* ------------------------------------------------ properties of SpecMain
\* The UTC instant a registered_at value denotes, if it denotes one.
HasInstant(u) == u.registered_at.kind = "iso"
Instant(u) == u.registered_at.hour -
              (IF u.registered_at.zone = "offset" THEN u.registered_at.offset ELSE 0)

ActiveRows == SelectSeq(directory, LAMBDA u : u.status = "active")

\* C13: get_active_users returns the active users by ascending
\* registered_at, ties broken by identifier, the users whose registered_at
\* is missing or unparseable after all the others; [x (t=2), y (t=1)]
\* comes back as [y, x].
C13_ActiveUsersSorted ==
    (main_pc \notin {"idle", "start"} /\ active_users # <<>>)
    => /\ Len(active_users) = Len(ActiveRows)
       /\ \A k \in DOMAIN ActiveRows : \E i \in DOMAIN active_users :
             active_users[i] = ActiveRows[k]
       /\ \A i, j \in DOMAIN active_users : i < j =>
             LET a == active_users[i]
                 b == active_users[j]
             IN /\ HasInstant(b) => HasInstant(a) /\ Instant(a) <= Instant(b)
                /\ (HasInstant(a) /\ HasInstant(b) /\ Instant(a) = Instant(b))
                      => StrLess(a.id, b.id)
                /\ (~HasInstant(a) /\ ~HasInstant(b)) => StrLess(a.id, b.id)
       /\ directory = <<DirX, DirY>> => active_users = <<DirY, DirX>>

C13_Witness ==
    /\ main_pc = "followup"
    /\ directory = <<DirX, DirY>>
    /\ active_users = <<DirY, DirX>>

\* An unbooked autobook candidate of the cycle, and what was done for it.
Unbooked(u) == u.mode = "autobook" /\ (booked_user = <<>> \/ booked_user[1].id # u.id)
StatusUpdatesOf(u) == {k \in DOMAIN main_status_updates : main_status_updates[k].id = u.id}
NotificationReached(u) ==
    \E k \in DOMAIN main_messages :
        /\ main_messages[k].id = u.id
        /\ main_messages[k].kind \in {"slot_available", "text"}
        /\ main_messages[k].result = "sent"

\* C14 as written: after a cycle, no status transition has been requested
\* for an autobook candidate that was not booked.
C14_UnbookedUntouched ==
    main_pc = "done"
    => \A i \in DOMAIN active_users :
          Unbooked(active_users[i]) => StatusUpdatesOf(active_users[i]) = {}

\* C14: after a cycle, the only status transition requested for an
\* autobook candidate that was not booked is one transition to pending, and
\* it is requested exactly when an availability notification to the
\* candidate succeeded in that cycle; otherwise none is requested.
C14_UnbookedOnlySetPendingWhenNotified ==
    main_pc = "done"
    => \A i \in DOMAIN active_users :
          LET u == active_users[i] IN
          Unbooked(u) =>
             /\ \A k \in StatusUpdatesOf(u) : main_status_updates[k].status = "pending"
             /\ Cardinality(StatusUpdatesOf(u)) <= 1
             /\ StatusUpdatesOf(u) # {} <=> NotificationReached(u)

C14_Witness ==
    /\ main_pc = "done"
    /\ \E i, j \in DOMAIN active_users :
          /\ i # j
          /\ Unbooked(active_users[i]) /\ StatusUpdatesOf(active_users[i]) = {}
          /\ Unbooked(active_users[j]) /\ StatusUpdatesOf(active_users[j]) # {}
          /\ \E k \in DOMAIN saltala_calls : saltala_calls[k].op = "block"

\* C15: a cycle that finds a user pending for longer than the reactivation
\* delay, who did not respond, asks the directory to set that user back to
\* active.
C15_OverduePendingReactivated ==
    main_pc = "done"
    => \A i \in DOMAIN directory :
          (/\ directory[i].status = "pending"
           /\ directory[i].notified_hours > ReactivationHours
           /\ \E j \in DOMAIN pending_users : pending_users[j] = directory[i])
          => \E k \in DOMAIN main_status_updates :
                /\ main_status_updates[k].id = directory[i].id
                /\ main_status_updates[k].status = "active"

\* C16: with two or more times on the first day, two or more eligible
\* autobook candidates and every booking call succeeding, the cycle books
\* both candidates.
EligibleAutobook == SelectSeq(main_autobook_users, IsEligible)
BookedIds ==
    {saltala_calls[k].id : k \in {n \in DOMAIN saltala_calls :
                                    saltala_calls[n].op = "reserve" /\ saltala_calls[n].ok}}

C16_BothCandidatesBooked ==
    (/\ main_pc = "done"
     /\ Len(line_times) >= 2
     /\ Len(EligibleAutobook) >= 2
     /\ \A k \in DOMAIN saltala_calls : saltala_calls[k].ok)
    => /\ EligibleAutobook[1].id \in BookedIds
       /\ EligibleAutobook[2].id \in BookedIds

\* C17: main returns the distinguished non-zero exit code when availability
\* was found and processed, and zero when there was nothing to do.
C17_ExitCodeTellsAvailability ==
    main_pc = "done"
    => /\ EXIT_AVAILABILITY_HANDLED # 0
       /\ exit_code = IF days # <<>> THEN <<EXIT_AVAILABILITY_HANDLED>> ELSE <<0>>

\* C18: a failure of the day listing or of the time listing of one line
\* (status outside 2xx, connection error, timeout) never aborts main: no
\* exception leaves it, and a line after the failed one is still checked.
C18_ListingFailureDoesNotAbort ==
    /\ raised = "none"
    /\ main_pc # "raised"
    /\ main_pc = "done"
          => \A k \in DOMAIN saltala_calls :
                (saltala_calls[k].op = "days" /\ ~saltala_calls[k].ok
                   /\ saltala_calls[k].line # targets[Len(targets)])
                => \E n \in DOMAIN saltala_calls :
                      n > k /\ saltala_calls[n].op = "days"
                            /\ saltala_calls[n].line # saltala_calls[k].line

\* --------------------------------------------------- properties, part 3
\* A text field that is missing, empty, or made of whitespace only.
BlankAfterTrim(v) == v = None \/ \A k \in DOMAIN v : v[k] = " "

EligibleAfterTrim(u) ==
    ~BlankAfterTrim(u.rut) /\ ~BlankAfterTrim(u.first_name) /\ ~BlankAfterTrim(u.last_name)

\* C21: the eligibility check passes only a candidate whose rut, first name
\* and last name are non-empty after trimming: a candidate with a
\* whitespace-only field has no gateway call made for it and is never
\* booked.
C21_EligibilityTrims ==
    /\ pc \in {"block", "reserve", "release"} => EligibleAfterTrim(user)
    /\ calls # <<>> => EligibleAfterTrim(user)
    /\ \A k \in DOMAIN booked : EligibleAfterTrim(booked[k])

\* C30: the release call after a failed reservation names the slot of the
\* block call of the same transaction: same lineId, same date-time, and the
\* same digits-only rut tag (in both payloads or in neither).
C30_ReleaseNamesBlockedSlot ==
    \A k \in CallsOf("release") :
        /\ calls[1].op = "block"
        /\ calls[k].payload.lineId = calls[1].payload.lineId
        /\ calls[k].payload.day = calls[1].payload.day
        /\ calls[k].payload.time = calls[1].payload.time
        /\ calls[k].payload.patientRut = calls[1].payload.patientRut
        /\ calls[k].payload.patientRut = SelectSeq(str(user.rut), IsDigit)
        /\ calls[k].payload.time = t

C30_Witness ==
    /\ pc = "returned"
    /\ Len(calls) = 3 /\ calls[3].op = "release"
    /\ \E k \in DOMAIN user.rut : ~IsDigit(user.rut[k])
    /\ calls[3].payload.patientRut # <<>>

\* C23: in the runs where every release call succeeds, no block placed by
\* the run is outstanding between two transactions or at the end of the
\* run, and at most one unreserved block exists at any moment (that of the
\* transaction in progress).
C23_NoOutstandingBlock ==
    /\ pc \in {"for_user", "for_time", "returned", "confirm", "done"} => held = {}
    /\ Cardinality(held) <= 1
    /\ held # {} => (pc \in {"reserve", "release"} /\ held = {t})

C23_Witness ==
    /\ pc = "for_time" /\ attempts = 1 /\ idx = 2
    /\ Len(booked) = 1
    /\ held = {}
    /\ transactions = 3

\* C24: within a turn the times attempted are the entries of the pool as
\* it was when the turn began, one transaction per entry, in list order
\* (ascending time), and the turn ends at the first confirmed time.
C24_TurnStep ==
    /\ snapshot' # snapshot
          => pc = "for_user" /\ snapshot' = remaining_times /\ attempts' = 0
    /\ transactions' # transactions
          => /\ pc = "for_time"
             /\ attempts' = attempts + 1 /\ attempts' <= Len(snapshot)
             /\ UNCHANGED <<snapshot, idx>>
    /\ attempts' # attempts
          => transactions' # transactions \/ (pc = "for_user" /\ attempts' = 0)
    /\ (pc = "block" /\ calls' # calls)
          => /\ Len(calls') = 1
             /\ calls'[1].payload.time = snapshot[attempts]
             /\ \A k \in 1..(attempts - 1) : snapshot[k] <= calls'[1].payload.time
    /\ pc = "confirm"
          => /\ pc' = "for_user" /\ idx' = idx + 1
             /\ reservations[Len(reservations)].time = snapshot[attempts]

ConfirmedSoFar == IF pc = "confirm" THEN Append(booked, user) ELSE booked
WithId(us) == SelectSeq(us, LAMBDA u : u.id # None /\ u.id # <<>>)

C26_FifoSideEffects ==
    /\ Len(ConfirmedSoFar) <= Len(reservations)
    /\ \A k \in DOMAIN ConfirmedSoFar : reservations[k].rut = ConfirmedSoFar[k].rut
    /\ Len(status_updates) = Len(WithId(ConfirmedSoFar))
    /\ \A k \in DOMAIN status_updates :
          /\ status_updates[k].id = WithId(ConfirmedSoFar)[k].id
          /\ status_updates[k].status = "inactive"
    /\ Len(messages) = Len(booked)
    /\ \A k \in DOMAIN messages :
          /\ messages[k].phone = booked[k].phone
          /\ messages[k].time = reservations[k].time
          /\ messages[k].template = "booking_confirmed"

C26_FifoStep ==
    /\ status_updates' # status_updates
          => /\ pc = "returned"
             /\ calls # <<>> /\ calls[Len(calls)].op = "reserve"
             /\ ~CallFailed(calls[Len(calls)].resp)
             /\ calls[Len(calls)].payload.rut = user.rut
    /\ messages' # messages
          => pc = "confirm" /\ Len(reservations) = Len(booked) + 1
    /\ (pc = "for_time" /\ pc' = "for_user") => UNCHANGED <<status_updates, messages>>

C26_MainSideEffects ==
    LET inactive == {k \in DOMAIN main_status_updates :
                        main_status_updates[k].status = "inactive"}
        confirmations == {k \in DOMAIN main_messages : main_messages[k].kind = "booked"}
        reserved(id) == {k \in DOMAIN saltala_calls :
                            /\ saltala_calls[k].op = "reserve" /\ saltala_calls[k].ok
                            /\ saltala_calls[k].id = id}
    IN /\ \A k \in inactive :
             Cardinality(reserved(main_status_updates[k].id)) = 1
       /\ \A k \in confirmations : Cardinality(reserved(main_messages[k].id)) = 1
       /\ Cardinality(inactive) <= 1 /\ Cardinality(confirmations) <= 1
       /\ Cardinality(inactive) <= Cardinality({k \in DOMAIN saltala_calls :
                                     saltala_calls[k].op = "reserve" /\ saltala_calls[k].ok})

C26_SideEffectsOnlyAfterReserve ==
    [](C26_FifoSideEffects /\ C26_MainSideEffects) /\ [][C26_FifoStep]_vars

C26_Witness ==
    /\ pc = "for_user" /\ idx = 3
    /\ booked = <<autobook_users[2]>>
    /\ autobook_users[1] # autobook_users[2] /\ IsEligible(autobook_users[1])
    /\ Len(status_updates) = 1 /\ Len(messages) = 1
    /\ transactions >= 2

\* C22: no block or reserve call (nor release) is issued on behalf of a
\* user whose mode is not autobook; such a user is only notified (and set
\* to pending once notified).
BookingOps == {"block", "reserve", "release"}

C22_OnlyAutobookUsersBooked ==
    /\ \A k \in DOMAIN saltala_calls :
          saltala_calls[k].op \in BookingOps
          => \E i \in DOMAIN directory :
                /\ directory[i].id = saltala_calls[k].id
                /\ directory[i].mode = "autobook"
    /\ booked_user # <<>> => booked_user[1].mode = "autobook"
    /\ \A i \in DOMAIN directory :
          directory[i].mode # "autobook"
          => \A k \in DOMAIN main_status_updates :
                main_status_updates[k].id = directory[i].id
                => main_status_updates[k].status = "pending"

C22_Witness ==
    /\ main_pc = "done"
    /\ Len(active_users) = 2
    /\ active_users[1].mode # "autobook"
    /\ booked_user = <<active_users[2]>>
    /\ \E k \in DOMAIN main_messages :
          main_messages[k].id = active_users[1].id /\ main_messages[k].kind = "slot_available"

\* C25: get_active_users returns the same sequence for every upstream
\* ordering of the same set of active users.
SameRows(d1, d2) ==
    /\ Len(d1) = Len(d2)
    /\ \A i \in DOMAIN d1 : \E j \in DOMAIN d2 : d2[j] = d1[i]

C25_OrderIndependent ==
    (main_pc = "followup" /\ active_users # <<>>)
    => \A other \in Directories :
          SameRows(directory, other)
          => get_active_users(other, [exc |-> "none", status |-> 200]) = active_users

C25_Witness ==
    /\ main_pc = "followup"
    /\ directory = <<DirX, DirN>>
    /\ active_users = <<DirN, DirX>>

\* C28: in a cycle that found availability the availability notification
\* is attempted for exactly the active users with a non-empty phone other
\* than the user booked in the cycle; the booked user is not sent it and
\* is not set to pending.
AvailabilityKinds == {"slot_available", "text"}
AttemptedIds == {main_messages[k].id : k \in {n \in DOMAIN main_messages :
                                                main_messages[n].kind = "slot_available"}}
IsBookedUser(u) == booked_user # <<>> /\ booked_user[1].id = u.id

C28_NotifiedSet ==
    /\ main_pc = "done" /\ days # <<>>
          => AttemptedIds = {active_users[i].id : i \in
                               {n \in DOMAIN active_users :
                                   /\ active_users[n].phone # <<>>
                                   /\ active_users[n].phone # None
                                   /\ ~IsBookedUser(active_users[n])}}
    /\ booked_user # <<>>
          => /\ \A k \in DOMAIN main_messages :
                   main_messages[k].id = booked_user[1].id
                   => main_messages[k].kind \notin AvailabilityKinds
             /\ \A k \in DOMAIN main_status_updates :
                   main_status_updates[k].id = booked_user[1].id
                   => main_status_updates[k].status # "pending"

C28_Witness ==
    /\ main_pc = "done"
    /\ booked_user # <<>>
    /\ Len(active_users) = 2
    /\ Cardinality(AttemptedIds) = 1
    /\ booked_user[1].id \notin AttemptedIds

\* C29: a user is set to pending only if the template message or the
\* fallback text to that user returned success in the cycle, and the
\* fallback text is sent only after the template send to that user failed.
C29_PendingOnlyAfterSuccess ==
    /\ \A k \in DOMAIN main_status_updates :
          main_status_updates[k].status = "pending"
          => \E n \in DOMAIN main_messages :
                /\ main_messages[n].id = main_status_updates[k].id
                /\ main_messages[n].kind \in AvailabilityKinds
                /\ main_messages[n].result = "sent"
    /\ \A n \in DOMAIN main_messages :
          main_messages[n].kind = "text"
          => /\ n > 1
             /\ main_messages[n - 1].id = main_messages[n].id
             /\ main_messages[n - 1].kind = "slot_available"
             /\ main_messages[n - 1].result = "failed"

C29_Witness ==
    /\ main_pc = "done"
    /\ Len(active_users) = 2
    /\ \E n \in DOMAIN main_messages :
          main_messages[n].kind = "text" /\ main_messages[n].result = "sent"
    /\ \E n \in DOMAIN main_messages :
          main_messages[n].kind = "text" /\ main_messages[n].result = "failed"
    /\ Len(main_status_updates) = 1
    /\ main_status_updates[1].status = "pending"

\* C27: FIFO priority under failures.  Whatever the gateway answers, the
\* allocator leaves a candidate for the next one only when the candidate
\* is not eligible, was booked, or had a failed transaction on every time
\* of the pool as it was at the start of its turn; so when a candidate is
\* booked, every eligible candidate before it was booked or failed on all
\* the times it could have had.
C27_LeaveTurnStep ==
    /\ idx' # idx
          => /\ idx' = idx + 1
             /\ \/ pc = "for_user" /\ LacksRequiredField(user) /\ UNCHANGED transactions
                \/ pc = "confirm" /\ booked' = Append(booked, user)
                \/ /\ pc = "for_time"
                   /\ attempts = Len(snapshot) /\ attempts >= 1
                   /\ snapshot = remaining_times
                   /\ transactions >= attempts
                   /\ Len(reservations) = Len(booked)
    /\ (pc = "returned" /\ pc' = "for_time")
          => /\ Len(reservations) = Len(booked)
             /\ calls # <<>> /\ \E k \in DOMAIN calls : CallFailed(calls[k].resp)
    /\ (pc = "for_time" /\ attempts' # attempts) => transactions' = transactions + 1

\* For a list without repeated candidates: the transactions made so far
\* are at least one per booked candidate plus, for every eligible
\* candidate passed over, the size of the pool at the start of its turn.
PositionOf(u) == CHOOSE j \in DOMAIN autobook_users : autobook_users[j] = u
PassedOver == {j \in 1..(idx - 1) :
                  /\ IsEligible(autobook_users[j])
                  /\ \A k \in DOMAIN booked : booked[k] # autobook_users[j]}
PoolSizeAt(j) == Len(times) - Cardinality({k \in DOMAIN booked : PositionOf(booked[k]) < j})

C27_EarlierCandidatesExhausted ==
    (/\ pc \in {"for_user", "done"}
     /\ \A i, j \in DOMAIN autobook_users : i # j => autobook_users[i] # autobook_users[j])
    => /\ \A k \in DOMAIN booked : \A j \in PassedOver :
             j < PositionOf(booked[k]) => PoolSizeAt(j) >= 1
       /\ transactions >= Len(booked) +
             Cardinality({p \in PassedOver \X (1..Len(times)) : p[2] <= PoolSizeAt(p[1])})

C27_FifoPriority ==
    [][C27_LeaveTurnStep]_vars /\ []C27_EarlierCandidatesExhausted

C27_Witness ==
    /\ pc = "for_user" /\ idx = 3
    /\ IsEligible(autobook_users[1])
    /\ booked = <<autobook_users[2]>>
    /\ autobook_users[1] # autobook_users[2]
    /\ Len(times) = 3
    /\ transactions = 6

====
